---- MODULE Spec2Model ----
(***************************************************************************)
(* ipvc: branches, their head/stage/workspace ref trees, commit creation   *)
(* with parent linkage, merge/replay markers and first-parent history,     *)
(* over a content-addressed store with a mutable path namespace (MFS).     *)
(*                                                                         *)
(* A directory of the mutable namespace is a function from entry names to  *)
(* entries; an entry that is absent is not in the DOMAIN.  files_rm        *)
(* removes a name, files_cp / files_write / files_mkdir add one.  Links    *)
(* made from /ipfs/<hash> hold the hash; a hash is the index of the        *)
(* object in the table of immutable objects, and equal content has the     *)
(* same index.                                                             *)
(***************************************************************************)
EXTENDS Integers, Sequences, FiniteSets, TLC

\* ------------------------------------------------------------------ bounds
MaxCommits == 2      \* successful commit() calls in one behaviour
MaxPaths   == 2      \* length of the fs_paths list given to add / remove
MaxUp      == 1      \* number of ~ in a from_commit ref
MaxPulls   == 1      \* merges / replays started by the pull collaborator
MaxCalls   == 2      \* store calls counted within one invocation

\* the files of the repository in listing order, and what a file can hold
FileList == <<"f">>
Files    == {FileList[i] : i \in 1..Len(FileList)}
Contents == {"a"}
NoFile   == ""       \* the file is not in the tree

RootPath    == "."       \* the repository root (covers every file)
OutsidePath == "../x"    \* an fs path that is not under the repository root
FsPaths == Files \cup {RootPath, OutsidePath}

\* branch names, as the characters str.replace / str.isalnum look at
AlnumChars == {"m", "d", "1", "h", "e", "a", "s", "t", "g",
               "w", "o", "r", "k", "p", "c"}
Master == <<"m">>
Names == { Master, <<"d", "_", "1">>, <<"h", "e", "a", "d">>,
           <<"s", "t", "a", "g", "e">>,
           <<"w", "o", "r", "k", "s", "p", "a", "c", "e">>,
           <<"a", "-", "1">>, <<"_">> }

\* commit messages, as characters; len(message) is what commit() tests
Messages == { <<>>, <<" ">>, <<"m">> }

\* from_commit refs: @<base> followed by `up` times ~
Refs == [base : {"head"}, up : 0..MaxUp]
AtHead == [base |-> "head", up |-> 0]

\* --------------------------------------------------------- entry names
ParentEntry          == "parent"            \* written by commit()
MetadataEntry        == "commit_metadata"   \* written by commit()
MergeParentEntry     == "merge_parent"      \* written by commit()
HistoryParentEntry   == "parent1"           \* followed by history()
HistoryMetadataEntry == "metadata"          \* read by history()

VARIABLES
    pulls,     \* merges / replays started so far
    repo,      \* MFS: branch name -> branch directory (entry name -> entry)
    active,    \* content of the active_branch_name file
    objects,   \* immutable objects; the hash of objects[i] is i
    clock,     \* number of successful commits (source of utcnow())
    made,      \* branch name -> hashes returned by commit() on it, in order
    holder,    \* the invocation inside the repository's atomic scope
    pc         \* invocation -> where it is in the method it runs

vars == <<repo, active, objects, clock, pulls, made, holder, pc>>

\* ------------------------------------------------------- store adapter
Has(d, n) == n \in DOMAIN d

FilesRm(d, n) == [k \in DOMAIN d \ {n} |-> d[k]]

FilesCp(d, n, v) == [k \in DOMAIN d \cup {n} |-> IF k = n THEN v ELSE d[k]]

\* the object table after the object t is added to the store
Put(objs, t) ==
    IF \E i \in 1..Len(objs) : objs[i] = t THEN objs ELSE Append(objs, t)

\* files_stat(path)['Hash'] of the object t
HashOf(objs, t) == CHOOSE i \in 1..Len(objs) : objs[i] = t

EmptyBundle == [f \in Files |-> NoFile]

\* ------------------------------------------------------------ diff engine
Changes(fromB, toB) ==
    { <<"added", f>>    : f \in {g \in Files : fromB[g] = NoFile
                                               /\ toB[g] # NoFile} }
    \cup
    { <<"removed", f>>  : f \in {g \in Files : fromB[g] # NoFile
                                               /\ toB[g] = NoFile} }
    \cup
    { <<"modified", f>> : f \in {g \in Files : fromB[g] # NoFile
                                               /\ toB[g] # NoFile
                                               /\ fromB[g] # toB[g]} }

\* a ref tree that can be diffed: it exists and holds a bundle
HasRef(d, ref) == Has(d, ref) /\ Has(d[ref], "bundle")

DiffChanges(d, toRef, fromRef) == Changes(d[fromRef].bundle, d[toRef].bundle)

\* the files an fs path (relative to the root) covers
Covered(p) == IF p = RootPath THEN Files ELSE {p}

\* ------------------------------------------------------------ invocations
\* two command invocations against the one repository
Invocations == {1, 2}
NoOne == 0

\* the mutating public methods
Methods == {"create", "checkout", "add", "remove", "commit"}

\* variant: commit() does not carry the decorator
AtomicMethodsNoCommit == {"create", "checkout", "add", "remove"}

\* the methods that carry the @atomic decorator
AtomicMethods == {"create", "checkout", "add", "remove", "commit"}

\* an invocation that runs no method
IdlePc == [phase |-> "idle", method |-> "", depth |-> 0, calls |-> 0]

\* --------------------------------------------------------------- Init
InitTree == [bundle |-> EmptyBundle]

Init ==
    /\ repo = (Master :> [head |-> InitTree, stage |-> InitTree,
                          workspace |-> InitTree])
    /\ active = Master
    /\ objects = <<InitTree>>
    /\ clock = 0
    /\ pulls = 0
    /\ made = (Master :> <<>>)
    /\ holder = NoOne
    /\ pc = [i \in Invocations |-> IdlePc]

\* ------------------------------------------------------ BranchAPI.checkout
\* variant: the file is not cleared before the write
FilesWriteKeepTail(old, data, truncate) ==
    data \o SubSeq(old, Len(data) + 1, Len(old))

\* files_write at offset 0: the bytes of the file afterwards; without
\* truncate the bytes of the old content past the written ones stay
FilesWrite(old, data, truncate) ==
    IF truncate THEN data
    ELSE data \o SubSeq(old, Len(data) + 1, Len(old))

\* variant: the branch is not looked up before the write
CheckoutResultNoStat(r, act, name) ==
    [active |-> FilesWrite(act, name, TRUE), err |-> ""]

\* the active_branch_name file after checkout, and the error it raises
CheckoutResult(r, act, name) ==
    IF ~Has(r, name) THEN [active |-> act, err |-> "NoSuchBranch"]
    ELSE [active |-> FilesWrite(act, name, TRUE), err |-> ""]

Checkout(name) ==
    /\ active' = CheckoutResult(repo, active, name).active
    /\ UNCHANGED <<repo, objects, clock, pulls, made, holder, pc>>

\* --------------------------------------------------------- BranchAPI.create
Replace(name, ch) == SelectSeq(name, LAMBDA c : c # ch)

IsAlnum(s) == Len(s) > 0 /\ \A i \in 1..Len(s) : s[i] \in AlnumChars

\* variant: one keyword is missing from the list
ReservedNamesNoStage == { <<"h", "e", "a", "d">>,
                          <<"w", "o", "r", "k", "s", "p", "a", "c", "e">> }

ReservedNames == { <<"h", "e", "a", "d">>,
                   <<"w", "o", "r", "k", "s", "p", "a", "c", "e">>,
                   <<"s", "t", "a", "g", "e">> }

\* the error of create's name checks, "" when the name passes them
NameError(r, name) ==
    IF ~IsAlnum(Replace(name, "_")) THEN "BranchNameNotAlnum"
    ELSE IF name \in ReservedNames THEN "ReservedKeyword"
    ELSE IF Has(r, name) THEN "BranchExists"
    ELSE ""

\* expand_ref: @head~~ is the path head/parent/parent under the branch
RECURSIVE Ancestor(_, _, _)
Ancestor(objs, t, up) ==
    IF up = 0 THEN <<t>>
    ELSE IF ~Has(t, ParentEntry) THEN <<>>
    ELSE Ancestor(objs, objs[t[ParentEntry]], up - 1)

\* files_stat of the commit path: <<tree>> when it resolves, <<>> otherwise
ResolveCommit(objs, d, ref) ==
    IF ~Has(d, ref.base) THEN <<>> ELSE Ancestor(objs, d[ref.base], ref.up)

\* the two files_mkdir(parents=True) calls of the from_commit branch
MkdirRefs(r, name) == FilesCp(r, name, [stage |-> <<>>, workspace |-> <<>>])

\* variant: only the head of the current branch is copied
CopyBranchHeadOnly(r, act, name) == FilesCp(r, name, [head |-> r[act].head])

\* variant: the three ref trees are copied one by one, nothing else
CopyBranchRefsOnly(r, act, name) ==
    FilesCp(r, name, [ref \in DOMAIN r[act] \cap {"head", "stage", "workspace"}
                         |-> r[act][ref]])

\* Simply copy the current branch to the new branch
CopyBranch(r, act, name) == FilesCp(r, name, r[act])

\* variant: the commit's bundle is not copied into the stage
CopyCommitNoStage(r1, name, c) ==
    FilesCp(r1, name,
            [head      |-> c,
             workspace |-> FilesCp(r1[name].workspace, "bundle", c.bundle),
             stage     |-> r1[name].stage])

\* Copy the commit to the new branch's head, and the commit's bundle to
\* the workspace and the stage made by MkdirRefs
CopyCommit(r1, name, c) ==
    FilesCp(r1, name,
            [head      |-> c,
             workspace |-> FilesCp(r1[name].workspace, "bundle", c.bundle),
             stage     |-> FilesCp(r1[name].stage, "bundle", c.bundle)])

\* the store after create's calls, and the error it raises
CreateResult(r, act, objs, name, from_commit, no_checkout) ==
    LET Raise(e, r1) == [repo |-> r1, active |-> act, err |-> e]
        Done(r1) == [repo |-> r1, err |-> "",
                     active |-> IF no_checkout THEN act
                                ELSE CheckoutResult(r1, act, name).active]
    IN
    IF NameError(r, name) # ""
    THEN Raise(NameError(r, name), r)
    ELSE IF from_commit = AtHead
    THEN Done(CopyBranch(r, act, name))
    ELSE LET r1 == MkdirRefs(r, name)
             c  == ResolveCommit(objs, r[act], from_commit)
         IN IF Len(c) = 0
            THEN Raise("NoSuchCommit", r1)
            ELSE Done(CopyCommit(r1, name, c[1]))

Create(name, from_commit, no_checkout) ==
    LET res == CreateResult(repo, active, objects, name, from_commit,
                            no_checkout)
    IN /\ repo' = res.repo
       /\ active' = res.active
       /\ made' = [n \in DOMAIN res.repo |->
                      IF n \in DOMAIN made THEN made[n] ELSE <<>>]
       /\ UNCHANGED <<objects, clock, pulls, holder, pc>>

\* ------------------------------------------------- StageAPI.add / remove
\* the change of one file between the tree copied to and the tree copied from
FileChange(toB, fromB, f) ==
    IF toB[f] = fromB[f] THEN <<>>
    ELSE IF toB[f] = NoFile THEN << <<"added", f>> >>
    ELSE IF fromB[f] = NoFile THEN << <<"removed", f>> >>
    ELSE << <<"modified", f>> >>

RECURSIVE PathChanges(_, _, _, _)
PathChanges(toB, fromB, files, i) ==
    IF i > Len(FileList) THEN <<>>
    ELSE (IF FileList[i] \in files
          THEN FileChange(toB, fromB, FileList[i]) ELSE <<>>)
         \o PathChanges(toB, fromB, files, i + 1)

\* add_ref_changes_to_ref: the changes under the path, and the branch
\* directory with that subtree copied from from_ref into to_ref
AddRefChangesToRef(d, from_ref, to_ref, path) ==
    LET fromB == d[from_ref].bundle
        toB   == d[to_ref].bundle
        newB  == [f \in Files |-> IF f \in Covered(path) THEN fromB[f]
                                                            ELSE toB[f]]
    IN [changes |-> PathChanges(toB, fromB, Covered(path), 1),
        dir     |-> [d EXCEPT ![to_ref] = FilesCp(d[to_ref], "bundle", newB)]]

\* variant: the changes are collected but the subtree is not copied
RECURSIVE StagePathsNoCopy(_, _, _, _, _, _)
StagePathsNoCopy(d, from_ref, to_ref, fs_paths, i, changes) ==
    IF i > Len(fs_paths) THEN [dir |-> d, changes |-> changes, err |-> ""]
    ELSE IF fs_paths[i] = OutsidePath
    THEN [dir |-> d, changes |-> changes, err |-> "PathOutside"]
    ELSE IF ~(HasRef(d, from_ref) /\ HasRef(d, to_ref))
    THEN [dir |-> d, changes |-> changes, err |-> "StoreError"]
    ELSE LET r == AddRefChangesToRef(d, from_ref, to_ref, fs_paths[i])
         IN StagePathsNoCopy(d, from_ref, to_ref, fs_paths, i + 1,
                             changes \o r.changes)

\* the loop of add / remove over the generator _get_relative_paths: each
\* path is made relative (and may raise) only when the loop reaches it
RECURSIVE StagePaths(_, _, _, _, _, _)
StagePaths(d, from_ref, to_ref, fs_paths, i, changes) ==
    IF i > Len(fs_paths) THEN [dir |-> d, changes |-> changes, err |-> ""]
    ELSE IF fs_paths[i] = OutsidePath
    THEN [dir |-> d, changes |-> changes, err |-> "PathOutside"]
    ELSE IF ~(HasRef(d, from_ref) /\ HasRef(d, to_ref))
    THEN [dir |-> d, changes |-> changes, err |-> "StoreError"]
    ELSE LET r == AddRefChangesToRef(d, from_ref, to_ref, fs_paths[i])
         IN StagePaths(r.dir, from_ref, to_ref, fs_paths, i + 1,
                       changes \o r.changes)

PathLists == UNION { [1..n -> FsPaths] : n \in 0..MaxPaths }

\* variant: the subtree is copied into head instead of stage
AddResultToHead(d, fs_paths) ==
    StagePaths(d, "workspace", "head", fs_paths, 1, <<>>)

\* add: the branch directory afterwards, the changes returned, the error
AddResult(d, fs_paths) == StagePaths(d, "workspace", "stage", fs_paths, 1, <<>>)

RemoveResult(d, fs_paths) == StagePaths(d, "head", "stage", fs_paths, 1, <<>>)

Add(fs_paths) ==
    /\ repo' = [repo EXCEPT ![active] = AddResult(repo[active], fs_paths).dir]
    /\ UNCHANGED <<active, objects, clock, pulls, made, holder, pc>>

Remove(fs_paths) ==
    /\ repo' = [repo EXCEPT ![active] =
                   RemoveResult(repo[active], fs_paths).dir]
    /\ UNCHANGED <<active, objects, clock, pulls, made, holder, pc>>

\* ------------------------------------------------ StageAPI.status / diff
\* what status() returns: (staged, unstaged), <<>> when a tree is missing
StageStatusResult(d) ==
    IF HasRef(d, "head") /\ HasRef(d, "stage") /\ HasRef(d, "workspace")
    THEN [ret |-> <<DiffChanges(d, "stage", "head"),
                    DiffChanges(d, "workspace", "stage")>>, err |-> ""]
    ELSE [ret |-> <<>>, err |-> "StoreError"]

StageStatus ==
    /\ StageStatusResult(repo[active]).err \in {"", "StoreError"}
    /\ UNCHANGED vars

DiffResult(d) ==
    IF HasRef(d, "head") /\ HasRef(d, "stage")
    THEN [ret |-> DiffChanges(d, "stage", "head"), err |-> ""]
    ELSE [ret |-> {}, err |-> "StoreError"]

Diff ==
    /\ DiffResult(repo[active]).err \in {"", "StoreError"}
    /\ UNCHANGED vars

\* -------------------------------------------------------- BranchAPI.status
BranchStatusResult(act) == act

BranchStatus ==
    /\ BranchStatusResult(active) \in DOMAIN repo
    /\ UNCHANGED vars

\* --------------------------------------------------------- StageAPI.commit
\* variant: the `not` of the guard is lost
NothingToCommitNoNot(is_merge, is_replay, changes) ==
    (is_merge \/ is_replay) /\ Cardinality(changes) = 0

NothingToCommit(is_merge, is_replay, changes) ==
    ~(is_merge \/ is_replay) /\ Cardinality(changes) = 0

\* variant: a replay in progress is not looked at
ClearsMergeStateOnReplay(is_merge, is_replay) == is_merge

ClearsMergeState(is_merge, is_replay) == is_merge /\ ~is_replay

\* variant: the workspace backup is left behind
MergeRefsNoWorkspace == <<"parent", "head", "stage">>

\* for ref in ['parent', 'head', 'stage', 'workspace']
MergeRefs == <<"parent", "head", "stage", "workspace">>

\* branch_info=f'merge_{ref}'
MergeRefPath(ref) ==
    CASE ref = "parent"    -> "merge_parent"
      [] ref = "head"      -> "merge_head"
      [] ref = "stage"     -> "merge_stage"
      [] ref = "workspace" -> "merge_workspace"

\* variant: the new head keeps the parent link of the head it replaces
SetHeadToStageStaleParent(d, head_hash) ==
    LET d1 == FilesRm(d, "head")
        d2 == FilesCp(d1, "head", d1.stage)
    IN [d2 EXCEPT !.head = FilesCp(d2.head, ParentEntry,
                              IF Has(d.head, ParentEntry)
                              THEN d.head[ParentEntry] ELSE head_hash)]

\* variant: the old head is not removed, so the copy of stage does not land
SetHeadToStageNoRm(d, head_hash) ==
    [d EXCEPT !.head = FilesCp(d.head, ParentEntry, head_hash)]

\* Set head to stage, then add the parent pointer to the previous head
SetHeadToStage(d, head_hash) ==
    LET d1 == FilesRm(d, "head")
        d2 == FilesCp(d1, "head", d1.stage)
    IN [d2 EXCEPT !.head = FilesCp(d2.head, ParentEntry, head_hash)]

\* the files_rm loop over the merge refs; files_rm of an absent path raises
RECURSIVE RmMergeRefs(_, _)
RmMergeRefs(d, i) ==
    IF i > Len(MergeRefs) THEN [dir |-> d, err |-> ""]
    ELSE IF ~Has(d, MergeRefPath(MergeRefs[i]))
    THEN [dir |-> d, err |-> "StoreError"]
    ELSE RmMergeRefs(FilesRm(d, MergeRefPath(MergeRefs[i])), i + 1)

\* the merge / replay step of commit
FinishMerge(d, is_merge, is_replay) ==
    IF ClearsMergeState(is_merge, is_replay)
    THEN RmMergeRefs([d EXCEPT !.head = FilesCp(d.head, MergeParentEntry,
                                                d["merge_parent"])], 1)
    ELSE [dir |-> d, err |-> ""]

Author == ""     \* params.get('author', None) of an unconfigured repository

CommitMetadata(message, now, is_merge, is_replay) ==
    [message |-> message, author |-> Author, timestamp |-> now,
     is_merge |-> is_merge, is_replay |-> is_replay]

\* metadata a caller supplies instead of a message
SuppliedMetadata ==
    [message |-> <<"r">>, author |-> "x", timestamp |-> 0,
     is_merge |-> FALSE, is_replay |-> FALSE]

\* commit_metadata is <<>> for None and <<metadata>> otherwise
CommitResult(r, objs, branch, message, commit_metadata, now) ==
    LET d         == r[branch]
        is_merge  == Has(d, "merge_parent")
        is_replay == Has(d, "replay_offset")
        Raise(e, r1) == [repo |-> r1, objects |-> objs, err |-> e, ret |-> 0]
    IN
    IF ~(HasRef(d, "stage") /\ HasRef(d, "head"))
    THEN Raise("StoreError", r)
    ELSE IF NothingToCommit(is_merge, is_replay,
                            DiffChanges(d, "stage", "head"))
    THEN Raise("NothingToCommit", r)
    ELSE IF Len(commit_metadata) = 0 /\ Len(message) = 0
    THEN Raise("EmptyMessage", r)
    ELSE
    LET md == IF Len(commit_metadata) = 0
              THEN CommitMetadata(message, now, is_merge, is_replay)
              ELSE commit_metadata[1]
        stat       == Put(Put(objs, d.head), d.stage)
        head_hash  == HashOf(stat, d.head)
        stage_hash == HashOf(stat, d.stage)
    IN
    IF head_hash = stage_hash
    THEN Raise("NothingToCommit", r)
    ELSE
    LET d1 == SetHeadToStage(d, head_hash)
        m  == FinishMerge(d1, is_merge, is_replay)
    IN
    IF m.err # ""
    THEN Raise(m.err, [r EXCEPT ![branch] = m.dir])
    ELSE
    LET d3    == [m.dir EXCEPT !.head = FilesCp(m.dir.head, MetadataEntry, md)]
        objs1 == Put(Put(objs, d.head), d3.head)
    IN [repo |-> [r EXCEPT ![branch] = d3], objects |-> objs1, err |-> "",
        ret |-> HashOf(objs1, d3.head)]

Commit(message, commit_metadata) ==
    LET res == CommitResult(repo, objects, active, message, commit_metadata,
                            clock + 1)
    IN /\ res.err = "" => clock < MaxCommits
       /\ repo' = res.repo
       /\ objects' = res.objects
       /\ IF res.err # ""
          THEN UNCHANGED <<clock, made>>
          ELSE /\ clock' = clock + 1
               /\ made' = [made EXCEPT ![active] = Append(@, res.ret)]
       /\ UNCHANGED <<active, pulls, holder, pc>>

\* -------------------------------------------------------- BranchAPI.history
RECURSIVE HistoryWalk(_, _)
HistoryWalk(objs, commit_hash) ==
    LET c == objs[commit_hash]
    IN IF ~Has(c, HistoryMetadataEntry) THEN <<>>
       ELSE <<commit_hash>> \o
            (IF Has(c, HistoryParentEntry)
             THEN HistoryWalk(objs, c[HistoryParentEntry])
             ELSE <<>>)

\* the list history() returns
HistoryResult(objs, d) ==
    IF HasRef(d, "head")
    THEN [ret |-> HistoryWalk(Put(objs, d.head),
                              HashOf(Put(objs, d.head), d.head)), err |-> ""]
    ELSE [ret |-> <<>>, err |-> "StoreError"]

History ==
    /\ HistoryResult(objects, repo[active]).err \in {"", "StoreError"}
    /\ UNCHANGED vars

\* ----------------------------------------------------------- BranchAPI.show
\* the listing show() returns for a ref that names a folder
ShowResult(objs, d, refpath) ==
    LET c == ResolveCommit(objs, d, refpath)
    IN IF Len(c) = 0 THEN [ret |-> {}, err |-> "StoreError"]
       ELSE [ret |-> DOMAIN c[1], err |-> ""]

Show(refpath) ==
    /\ ShowResult(objects, repo[active], refpath).err \in {"", "StoreError"}
    /\ UNCHANGED vars

\* ----------------------------------------------------------- collaborators
\* a branch with nothing staged, nothing unstaged and no merge or replay
Clean(d) ==
    /\ HasRef(d, "head") /\ HasRef(d, "stage") /\ HasRef(d, "workspace")
    /\ d.stage.bundle = d.head.bundle
    /\ d.workspace.bundle = d.stage.bundle
    /\ ~Has(d, "merge_parent") /\ ~Has(d, "replay_offset")

\* the commits a pull can merge: the head of a branch, as this repository
\* or a peer's copy of it holds it
TheirHeads(r, objs) ==
    { HashOf(Put(objs, r[n].head), r[n].head) :
        n \in {k \in DOMAIN r : HasRef(r[k], "head")} }

\* the pull collaborator starts a merge or a replay on the clean active
\* branch: the marker(s), and a backup of each ref tree
PullStart(their, replay) ==
    LET d == repo[active]
        d1 == FilesCp(FilesCp(FilesCp(FilesCp(d,
                  "merge_parent", their),
                  "merge_head", d.head),
                  "merge_stage", d.stage),
                  "merge_workspace", d.workspace)
    IN /\ pulls < MaxPulls
       /\ Clean(d)
       /\ repo' = [repo EXCEPT ![active] =
                      IF replay THEN FilesCp(d1, "replay_offset", 0) ELSE d1]
       /\ pulls' = pulls + 1
       /\ UNCHANGED <<active, objects, clock, made, holder, pc>>

\* common() mirrors an edit of the local filesystem into the workspace tree
WorkspaceEdit(f, c) ==
    LET d == repo[active]
    IN /\ HasRef(d, "workspace")
       /\ d.workspace.bundle[f] # c
       /\ repo' = [repo EXCEPT ![active].workspace.bundle[f] = c]
       /\ UNCHANGED <<active, objects, clock, pulls, made, holder, pc>>

Next ==
    \/ \E name \in Names : Checkout(name)
    \/ \E name \in Names, from_commit \in Refs, no_checkout \in BOOLEAN :
          Create(name, from_commit, no_checkout)
    \/ \E fs_paths \in PathLists : Add(fs_paths)
    \/ \E fs_paths \in PathLists : Remove(fs_paths)
    \/ StageStatus
    \/ Diff
    \/ BranchStatus
    \/ \E message \in Messages, commit_metadata \in {<<>>, <<SuppliedMetadata>>} :
          Commit(message, commit_metadata)
    \/ History
    \/ \E refpath \in Refs : Show(refpath)
    \/ \E their \in TheirHeads(repo, objects), replay \in BOOLEAN :
          PullStart(their, replay)
    \/ \E f \in Files, c \in Contents \cup {NoFile} : WorkspaceEdit(f, c)

Spec == Init /\ [][Next]_vars

\* ----------------------------------------------------- the atomic wrapper
\* The methods above are single steps because each public method runs
\* inside the wrapper.  Below, two invocations run their methods store call
\* by store call; what the calls do to the store is left out.
Inside(i) == pc[i].phase \in {"inside", "nested", "returning"}

\* a command is started: the method is called
Invoke(i, method) ==
    /\ pc[i].phase = "idle"
    /\ pc' = [pc EXCEPT ![i] = [phase |-> "waiting", method |-> method,
                                depth |-> 0, calls |-> 0]]
    /\ UNCHANGED <<repo, active, objects, clock, pulls, made, holder>>

\* the wrapper lets the invocation in: a decorated method waits until no
\* other invocation is inside
Enter(i) ==
    /\ pc[i].phase = "waiting"
    /\ IF pc[i].method \in AtomicMethods
       THEN holder = NoOne /\ holder' = i
       ELSE UNCHANGED holder
    /\ pc' = [pc EXCEPT ![i].phase = "inside", ![i].depth = 1]
    /\ UNCHANGED <<repo, active, objects, clock, pulls, made>>

\* one call to the store that returns
StoreCall(i) ==
    /\ pc[i].phase \in {"inside", "nested"}
    /\ pc[i].calls < MaxCalls
    /\ pc' = [pc EXCEPT ![i].calls = @ + 1]
    /\ UNCHANGED <<repo, active, objects, clock, pulls, made, holder>>

\* if not no_checkout: self.checkout(name) -- a decorated method called
\* from inside a decorated method
NestedCheckout(i) ==
    /\ pc[i].phase = "inside"
    /\ pc[i].method = "create"
    /\ pc' = [pc EXCEPT ![i].phase = "nested", ![i].depth = 2]
    /\ UNCHANGED <<repo, active, objects, clock, pulls, made, holder>>

\* a method returns: the scope of the outermost method releases, the
\* scope of a nested one does not
Return(i) ==
    /\ Inside(i)
    /\ IF pc[i].depth = 2
       THEN /\ pc' = [pc EXCEPT ![i].phase = "returning", ![i].depth = 1]
            /\ UNCHANGED holder
       ELSE /\ pc' = [pc EXCEPT ![i] = IdlePc]
            /\ holder' = IF holder = i THEN NoOne ELSE holder
    /\ UNCHANGED <<repo, active, objects, clock, pulls, made>>

\* a method raises: the error leaves every open scope
Raise(i) ==
    /\ pc[i].phase \in {"inside", "nested"}
    /\ pc' = [pc EXCEPT ![i] = IdlePc]
    /\ holder' = IF holder = i THEN NoOne ELSE holder
    /\ UNCHANGED <<repo, active, objects, clock, pulls, made>>

LockNext ==
    \/ \E i \in Invocations, method \in Methods : Invoke(i, method)
    \/ \E i \in Invocations : Enter(i)
    \/ \E i \in Invocations : StoreCall(i)
    \/ \E i \in Invocations : NestedCheckout(i)
    \/ \E i \in Invocations : Return(i)
    \/ \E i \in Invocations : Raise(i)

LockSpec == Init /\ [][LockNext]_vars

\* =================================================================== claims
CommitInputs == Messages \X {<<>>, <<SuppliedMetadata>>}

\* what commit() would do in the current state
CommitNow(in) == CommitResult(repo, objects, active, in[1], in[2], clock + 1)

MarkerNames == {"merge_parent", "merge_head", "merge_stage",
                "merge_workspace", "replay_offset"}

Markers(d) == [n \in DOMAIN d \cap MarkerNames |-> d[n]]

\* the object a hash names is a root: it carries no commit metadata
IsRoot(h) == ~Has(objects[h], MetadataEntry)

\* C1: of two consecutive successful commits on a branch, the head made by
\* the second holds a parent link to the hash the first returned
ParentChainIntegrity ==
    \A b \in DOMAIN made : \A k \in 1..(Len(made[b]) - 1) :
        LET c2 == objects[made[b][k + 1]]
        IN Has(c2, ParentEntry) /\ c2[ParentEntry] = made[b][k]

TwoCommitsOnBranch ==
    \E b \in DOMAIN made :
        /\ Len(made[b]) = 2
        /\ HashOf(objects, repo[b].head) = made[b][2]
        /\ objects[made[b][2]][ParentEntry] = made[b][1]

\* C2: after the commits H1 then H2 on a branch that started at a root,
\* history() returns <<H2, H1>>
HistoryListsCommits ==
    LET m == made[active]
    IN (Len(m) = 2 /\ IsRoot(objects[m[1]][ParentEntry]))
       => HistoryResult(objects, repo[active]).ret = <<m[2], m[1]>>

\* C3: on a branch whose head is a single root commit, history() returns
\* exactly one entry
HistoryOfRootCommit ==
    LET m == made[active]
    IN (Len(m) = 1 /\ IsRoot(objects[m[1]][ParentEntry]))
       => Len(HistoryResult(objects, repo[active]).ret) = 1

\* C4: commit() with nothing staged and no merge / replay marker raises
\* nothing-to-commit and leaves the store as it was
NothingStaged(d) ==
    /\ HasRef(d, "stage") /\ HasRef(d, "head")
    /\ Cardinality(DiffChanges(d, "stage", "head")) = 0
    /\ ~Has(d, "merge_parent") /\ ~Has(d, "replay_offset")

CommitClearsStagedDiff ==
    [][clock' = clock + 1 =>
          LET d == repo'[active']
          IN /\ Cardinality(DiffChanges(d, "stage", "head")) = 0
             /\ d.head.bundle = d.stage.bundle
             /\ Cardinality(DOMAIN d \cap MarkerNames) = 0 =>
                   \A in \in CommitInputs :
                       CommitResult(repo', objects', active', in[1], in[2],
                                    clock' + 1).err = "NothingToCommit"]_vars

JustCommitted ==
    LET d == repo[active]
    IN /\ HasRef(d, "head") /\ Has(d.head, MetadataEntry)
       /\ d.head[MetadataEntry].timestamp = clock
       /\ d.head[MetadataEntry].message = <<"m">>
       /\ d.head.bundle = d.stage.bundle
       /\ d.head.bundle # EmptyBundle
       /\ Cardinality(DOMAIN d \cap MarkerNames) = 0
       /\ CommitNow(<< <<"m">>, <<>> >>).err = "NothingToCommit"

\* C6: create() with a name that has a character other than alphanumerics
\* and underscore, or a reserved word, or the name of a branch, raises a
\* validation error and leaves branches and the active pointer as they were
BadName(name) ==
    \/ \E i \in 1..Len(name) : name[i] \notin AlnumChars \cup {"_"}
    \/ name \in { <<"h", "e", "a", "d">>, <<"s", "t", "a", "g", "e">>,
                  <<"w", "o", "r", "k", "s", "p", "a", "c", "e">> }
    \/ name \in DOMAIN repo

ValidationErrors == {"BranchNameNotAlnum", "ReservedKeyword", "BranchExists"}

UnresolvedCreate(name, from_commit) ==
    /\ NameError(repo, name) = ""
    /\ from_commit # AtHead
    /\ Len(ResolveCommit(objects, repo[active], from_commit)) = 0

FailedCreateLeavesNoBranch ==
    \A name \in Names, from_commit \in Refs :
        UnresolvedCreate(name, from_commit) =>
            LET res == CreateResult(repo, active, objects, name, from_commit,
                                    TRUE)
            IN /\ res.err = "NoSuchCommit"
               /\ ~Has(res.repo, name)
               /\ NameError(res.repo, name) = ""

\* C8: every branch of the repository has its head, stage and workspace
BranchesHaveThreeRefs ==
    \A b \in DOMAIN repo : {"head", "stage", "workspace"} \subseteq DOMAIN repo[b]

\* C9: a successful commit() with the merge marker present and the replay
\* marker absent puts the marker's content under merge_parent of the new
\* head and removes the marker and every backup
MergeCommitClearsState ==
    [][(/\ clock' = clock + 1
        /\ Has(repo[active], "merge_parent")
        /\ ~Has(repo[active], "replay_offset")) =>
          LET d == repo'[active]
          IN /\ Has(d.head, MergeParentEntry)
             /\ d.head[MergeParentEntry] = repo[active]["merge_parent"]
             /\ Cardinality(DOMAIN d \cap MarkerNames) = 0]_vars

MergeCommitted ==
    LET d == repo[active]
    IN /\ pulls = 1
       /\ HasRef(d, "head") /\ Has(d.head, MergeParentEntry)
       /\ Has(d.head, MetadataEntry) /\ d.head[MetadataEntry].is_merge
       /\ Cardinality(DOMAIN d \cap MarkerNames) = 0

\* C10: the markers and backups of a branch change only in a successful
\* commit() on it with the merge marker present and the replay marker
\* absent (or when the pull collaborator starts a merge or replay)
MarkersChangeOnlyInMergeCommit ==
    [][\A b \in DOMAIN repo :
          Markers(repo'[b]) # Markers(repo[b]) =>
             \/ pulls' = pulls + 1
             \/ /\ b = active
                /\ clock' = clock + 1
                /\ Has(repo[b], "merge_parent")
                /\ ~Has(repo[b], "replay_offset")]_vars

ReplayCommitted ==
    LET d == repo[active]
    IN /\ HasRef(d, "head") /\ Has(d.head, MetadataEntry)
       /\ d.head[MetadataEntry].is_replay
       /\ d.head[MetadataEntry].timestamp = clock
       /\ MarkerNames \subseteq DOMAIN d

RefNames == {"head", "stage", "workspace"}

\* files_stat(...)['Hash'] gives the two trees the same hash
SameHash(t1, t2) ==
    LET objs == Put(Put(objects, t1), t2)
    IN HashOf(objs, t1) = HashOf(objs, t2)

CreateFromCommitConsistent ==
    \A name \in Names, from_commit \in Refs \ {AtHead},
       no_checkout \in BOOLEAN :
        LET res == CreateResult(repo, active, objects, name, from_commit,
                                no_checkout)
            c   == ResolveCommit(objects, repo[active], from_commit)
        IN res.err = "" =>
              LET b == res.repo[name]
              IN /\ Len(c) = 1
                 /\ b.head = c[1]
                 /\ \A ref \in RefNames :
                       HasRef(b, ref) /\ b[ref].bundle = c[1].bundle
                 /\ DiffChanges(b, "stage", "head") = {}
                 /\ DiffChanges(b, "stage", "workspace") = {}

CreatedFromParentCommit ==
    \E b \in DOMAIN repo \ {active} :
        /\ Len(made[active]) = 2 /\ Len(made[b]) = 0
        /\ HasRef(repo[b], "head")
        /\ HashOf(objects, repo[b].head) = made[active][1]
        /\ repo[active].head[ParentEntry] = made[active][1]
        /\ repo[b].head.bundle # EmptyBundle
        /\ repo[b].stage = [bundle |-> repo[b].head.bundle]
        /\ repo[b].workspace = [bundle |-> repo[b].head.bundle]
        /\ repo[active].workspace.bundle # repo[b].workspace.bundle

\* C13: checkout(name) of a name that is no branch raises not-found and
\* leaves the pointer as it was; of a branch it makes the pointer exactly
\* name, which status() then returns; a successful create() ends with name
\* active when it checks out and with the pointer as it was otherwise
CheckoutSetsPointer ==
    /\ \A name \in Names :
          LET res == CheckoutResult(repo, active, name)
          IN IF Has(repo, name)
             THEN /\ res.err = ""
                  /\ res.active = name
                  /\ BranchStatusResult(res.active) = name
             ELSE /\ res.err = "NoSuchBranch"
                  /\ res.active = active
    /\ \A name \in Names, from_commit \in Refs, no_checkout \in BOOLEAN :
          LET res == CreateResult(repo, active, objects, name, from_commit,
                                  no_checkout)
          IN res.err = "" =>
                res.active = (IF no_checkout THEN active ELSE name)

LongNameActive ==
    /\ Len(active) > Len(Master)
    /\ Has(repo, Master)
    /\ CheckoutResult(repo, active, Master).active = Master
    /\ \E name \in Names : CheckoutResult(repo, active, name).err # ""
    /\ Len(made[active]) >= 1

\* C14: add() of a list that holds a path outside the repository root
\* raises path-outside and leaves the stage as it was, wherever in the
\* list the path is
AddOutsidePathLeavesStage ==
    \A fs_paths \in PathLists :
        (/\ \E i \in 1..Len(fs_paths) : fs_paths[i] = OutsidePath
         /\ HasRef(repo[active], "workspace")
         /\ HasRef(repo[active], "stage")) =>
            LET res == AddResult(repo[active], fs_paths)
            IN /\ res.err = "PathOutside"
               /\ res.dir.stage = repo[active].stage

\* C15: the head of a branch changes only in a successful commit() on that
\* branch; add, remove, status, diff, history, show, checkout and the
\* create of another branch leave the head hash of every branch as it was
HeadChangesOnlyInCommit ==
    [][\A b \in DOMAIN repo :
          (/\ Has(repo[b], "head")
           /\ \/ ~(Has(repo', b) /\ Has(repo'[b], "head"))
              \/ ~SameHash(repo'[b].head, repo[b].head)) =>
             /\ b = active
             /\ clock' = clock + 1]_vars

StagedOverCommittedHead ==
    /\ Cardinality(DOMAIN repo) = 2
    /\ Len(made[active]) = 1
    /\ HasRef(repo[active], "head") /\ HasRef(repo[active], "stage")
    /\ HashOf(objects, repo[active].head) = made[active][1]
    /\ repo[active].stage.bundle # repo[active].head.bundle
    /\ \E b \in DOMAIN repo \ {active} :
          /\ HasRef(repo[b], "head")
          /\ ~SameHash(repo[b].head, repo[active].head)

\* the message is empty once its whitespace is trimmed
BlankMessage(message) == \A i \in 1..Len(message) : message[i] = " "

\* C16: commit(message) without supplied metadata, with a message that is
\* empty after trimming and with changes staged, raises the empty-message
\* error and leaves the store as it was
BlankMessageRejected ==
    \A message \in Messages :
        (/\ BlankMessage(message)
         /\ HasRef(repo[active], "stage") /\ HasRef(repo[active], "head")
         /\ DiffChanges(repo[active], "stage", "head") # {}) =>
            LET res == CommitNow(<<message, <<>> >>)
            IN /\ res.err = "EmptyMessage"
               /\ res.repo = repo
               /\ res.objects = objects

\* C17: a second add() of the same path, with the workspace as it was at
\* the first, returns no change and leaves the stage as the first left it
SecondAddIsEmpty ==
    \A p \in FsPaths \ {OutsidePath} :
        (HasRef(repo[active], "workspace") /\ HasRef(repo[active], "stage")) =>
            LET first  == AddResult(repo[active], <<p>>)
                second == AddResult(first.dir, <<p>>)
            IN /\ first.err = "" /\ second.err = ""
               /\ Len(second.changes) = 0
               /\ second.dir.stage = first.dir.stage

UnstagedChangeToAdd ==
    /\ HasRef(repo[active], "workspace") /\ HasRef(repo[active], "stage")
    /\ Len(made[active]) = 1
    /\ \E p \in FsPaths \ {OutsidePath} :
          LET first == AddResult(repo[active], <<p>>)
          IN /\ Len(first.changes) > 0
             /\ first.dir.stage # repo[active].stage
             /\ Len(AddResult(first.dir, <<p>>).changes) = 0

ActiveIsBranch ==
    /\ active \in Names
    /\ Has(repo, active)

ActiveAfterFailedCreate ==
    /\ active # Master
    /\ Has(repo, active) /\ ~Has(repo[active], "head")
    /\ Has(repo, Master) /\ Len(made[Master]) >= 1
    /\ \E name \in Names : CheckoutResult(repo, active, name).err # ""

\* what commit(message) would do on branch b of the store r
CommitOn(r, b) == CommitResult(r, objects, b, <<"m">>, <<>>, clock + 1)

\* C20: when create(B, "@head") succeeds while the active branch has a
\* merge or replay marker, B has the markers and backups of that branch,
\* and a commit() on B that succeeds is a merge / replay commit as one on
\* the source branch would be
CreateCopiesMergeState ==
    \A name \in Names, no_checkout \in BOOLEAN :
        LET res == CreateResult(repo, active, objects, name, AtHead,
                                no_checkout)
        IN (res.err = "" /\ DOMAIN Markers(repo[active]) # {}) =>
              LET src == repo[active]
                  c   == CommitOn(res.repo, name)
              IN /\ Markers(res.repo[name]) = Markers(src)
                 /\ c.err = CommitOn(repo, active).err
                 /\ c.err = "" =>
                       LET md == c.repo[name].head[MetadataEntry]
                       IN /\ md.is_merge = Has(src, "merge_parent")
                          /\ md.is_replay = Has(src, "replay_offset")
                          /\ ~md.is_replay =>
                                c.repo[name].head[MergeParentEntry]
                                   = src["merge_parent"]

MergeStateCopied ==
    \E b \in DOMAIN repo \ {active} :
        /\ Has(repo[b], "merge_parent")
        /\ Markers(repo[b]) = Markers(repo[active])
        /\ repo[b] = repo[active]
        /\ CommitOn(repo, active).err = ""
====
